---- MODULE Spec2Model ----
(***************************************************************************)
(* Caption timeline synthesis and encode orchestration of                  *)
(* ai-video-to-shorts (electron/processor.cjs, electron/main.cjs).         *)
(*                                                                         *)
(* Seven specifications share the module:                                  *)
(*   Spec       one run of processVideo with its file system, the Speech   *)
(*              Engine and the Encoder Engine as external processes;       *)
(*   SpecEncode the runs without captions, with a longer encoder stream;   *)
(*   SpecChunk  splitCaptionText applied to bounded texts;                 *)
(*   SpecAss    buildAssFromWordList / buildAssFromSrt applied to bounded  *)
(*              timed units;                                               *)
(*   SpecNorm   parseWtsFile, parseWhisperJson, the block text and the     *)
(*              style lookup of the builders applied to bounded inputs;    *)
(*   SpecNames  the artifact paths two runs take in one source directory;  *)
(*   SpecUpdate the update handlers over the persisted update state.       *)
(*                                                                         *)
(* Strings are sequences of naturals: 0 is one whitespace character, n > 0 *)
(* is a run of n non-whitespace characters (runs of different length are   *)
(* different text).  Times are exact: JavaScript's floating point rounding *)
(* is not modelled.                                                        *)
(***************************************************************************)
EXTENDS Integers, Sequences, FiniteSets, TLC

VARIABLES
    \* ---- one run of processVideo
    pc,           \* where the run is (the await it is suspended at), or "done"
    payload,      \* what the caller passed: input path present, settings
    files,        \* the files that exist in the run's directories
    content,      \* what each transcript file holds (a class of contents)
    captionsPath, \* processVideo's locals, NoPath for null
    wtsPath,
    jsonPath,
    wavPath,
    assPath,
    progress,     \* the events delivered to onProgress, <<percent, message>>
    consulted,    \* the transcript files the subtitle builders read, in order
    assSource,    \* the source the subtitle document was built from
    created,      \* the files the run's own processes and builders wrote
    unlinkFailed, \* the files whose unlinkSync threw inside safeDelete
    result,       \* what processVideo reported to its caller
    totalSeconds, \* runFfmpegWithProgress's progress denominator, 0 for null
    nData,        \* data events received from the child process running
    ffmpegLog,    \* the stderr chunks the encoder has delivered, in order
    encoderExit,  \* how the encoder ended: "none" | "code0" | "code1" | "error"
    encoderSpawns, \* how many times the encoding command was spawned
    filterChain,  \* the -vf filter chain of the encoding command, in order
    \* ---- splitCaptionText harness
    cpc,          \* "idle" | "input" | "done"
    cText,        \* the text argument
    cMaxWords,    \* the maxWords argument
    cMaxChars,    \* the maxChars argument
    cChunks,      \* the returned chunks
    \* ---- subtitle builder harness
    bpc,          \* "idle" | "input" | "built" | "threw"
    bKind,        \* "words" (buildAssFromWordList) | "srt" (buildAssFromSrt)
    bUnits,       \* the timed units: parsed words, or the blocks of the SRT file
    bSettings,    \* the settings the builder reads
    bSelection,   \* the selection window {start, duration}, in ms
    bOffset,      \* offsetSec, in ms
    bEvents,      \* the dialogue lines written, in document order
    \* ---- transcript text / time normalisation and style lookup harness
    fpc,          \* "idle" | "input" | "done"
    fKind,        \* "wts" | "json" | "srt" | "style"
    fInput,       \* raw word lines, raw tokens, text lines of a block, settings
    fOutput,      \* the words, the block's text, or the chosen style
    \* ---- artifact naming of two runs in one source directory
    nNow,         \* Date.now(), in ms
    nRuns,        \* per run: its stage, source, timestamps and artifact paths
    \* ---- the update handlers and update-state.json
    uState,       \* the parsed file: channel and remindUntil, absent or set
    uNow,         \* Date.now(), in ms
    uLastSet,     \* the channel written by the latest update:setChannel
    uReply,       \* what the latest handler call returned
    uCalls        \* handler calls so far

pathVars == <<captionsPath, wtsPath, jsonPath, wavPath, assPath>>

runVars == <<pc, payload, files, content, pathVars, progress, consulted, assSource,
             created, unlinkFailed, result, totalSeconds, nData,
             ffmpegLog, encoderExit, encoderSpawns, filterChain>>

encVars == <<ffmpegLog, encoderExit, encoderSpawns, filterChain>>

chunkVars == <<cpc, cText, cMaxWords, cMaxChars, cChunks>>

assVars == <<bpc, bKind, bUnits, bSettings, bSelection, bOffset, bEvents>>

normVars == <<fpc, fKind, fInput, fOutput>>

nameVars == <<nNow, nRuns>>

updateVars == <<uState, uNow, uLastSet, uReply, uCalls>>

vars == <<runVars, chunkVars, assVars, normVars, nameVars, updateVars>>

(***************************************************************************)
(* Generic helpers                                                         *)
(***************************************************************************)
Max2(a, b) == IF a >= b THEN a ELSE b

Min2(a, b) == IF a <= b THEN a ELSE b

SeqsUpTo(S, n) == UNION {[1..k -> S] : k \in 0..n}

\* String.prototype.length of a string in the run-length representation.
RECURSIVE StrLen(_)
StrLen(s) ==
    IF s = <<>> THEN 0
    ELSE (IF Head(s) = 0 THEN 1 ELSE Head(s)) + StrLen(Tail(s))

(***************************************************************************)
(* splitCaptionText (processor.cjs 96-119)                                 *)
(***************************************************************************)
\* text.trim().split(/\s+/).filter(Boolean): the maximal runs of
\* non-whitespace, in order.  acc is the word being read.
RECURSIVE SplitWords(_, _)
SplitWords(s, acc) ==
    IF s = <<>> THEN (IF acc = <<>> THEN <<>> ELSE <<acc>>)
    ELSE IF Head(s) = 0
         THEN (IF acc = <<>> THEN <<>> ELSE <<acc>>) \o SplitWords(Tail(s), <<>>)
         ELSE SplitWords(Tail(s), Append(acc, Head(s)))

Words(text) == SplitWords(text, <<>>)

\* Array.prototype.join(" ")
RECURSIVE JoinSpace(_)
JoinSpace(ws) ==
    IF ws = <<>> THEN <<>>
    ELSE IF Len(ws) = 1 THEN Head(ws)
    ELSE Head(ws) \o <<0>> \o JoinSpace(Tail(ws))

\* The for-loop of splitCaptionText over the remaining words.  In JavaScript
\* a limit of 0 (or undefined) is falsy and switches that limit off.
RECURSIVE SplitLoop(_, _, _, _, _, _)
SplitLoop(ws, maxWords, maxChars, chunks, current, currentLen) ==
    IF ws = <<>>
    THEN (IF Len(current) > 0 THEN Append(chunks, JoinSpace(current)) ELSE chunks)
    ELSE LET word    == Head(ws)
             nextLen == currentLen + (IF Len(current) > 0 THEN 1 ELSE 0) + StrLen(word)
         IN  IF \/ (maxWords # 0 /\ Len(current) >= maxWords)
                \/ (maxChars # 0 /\ nextLen > maxChars)
             THEN SplitLoop(Tail(ws), maxWords, maxChars,
                            Append(chunks, JoinSpace(current)), <<word>>, StrLen(word))
             ELSE SplitLoop(Tail(ws), maxWords, maxChars,
                            chunks, Append(current, word), nextLen)

\* splitCaptionText with the word limit tested one word too late.
splitCaptionTextLateWordLimit(text, maxWords, maxChars) ==
    LET words == Words(text)
    IN  IF words = <<>> THEN <<>>
        ELSE SplitLoop(words, IF maxWords # 0 THEN maxWords + 1 ELSE 0, maxChars,
                       <<>>, <<>>, 0)

splitCaptionText(text, maxWords, maxChars) ==
    LET words == Words(text)
    IN  IF words = <<>> THEN <<>>
        ELSE SplitLoop(words, maxWords, maxChars, <<>>, <<>>, 0)

(***************************************************************************)
(* The harnesses that are not running                                      *)
(***************************************************************************)
NoPath == "null"

Pending == [status |-> "pending", error |-> "none"]

RunIdle ==
    /\ pc = "idle" /\ payload = <<>> /\ files = {} /\ content = <<>>
    /\ captionsPath = NoPath /\ wtsPath = NoPath /\ jsonPath = NoPath
    /\ wavPath = NoPath /\ assPath = NoPath
    /\ progress = <<>> /\ consulted = <<>> /\ assSource = "none"
    /\ created = {} /\ unlinkFailed = {} /\ result = Pending
    /\ totalSeconds = 0 /\ nData = 0
    /\ ffmpegLog = <<>> /\ encoderExit = "none" /\ encoderSpawns = 0
    /\ filterChain = <<>>

ChunkIdle ==
    /\ cpc = "idle" /\ cText = <<>> /\ cMaxWords = 0 /\ cMaxChars = 0
    /\ cChunks = <<>>

AssIdle ==
    /\ bpc = "idle" /\ bKind = "none" /\ bUnits = <<>> /\ bSettings = <<>>
    /\ bSelection = <<>> /\ bOffset = 0 /\ bEvents = <<>>

NormIdle ==
    /\ fpc = "idle" /\ fKind = "none" /\ fInput = <<>> /\ fOutput = <<>>

NameIdle == nNow = 0 /\ nRuns = <<>>

UpdateIdle ==
    /\ uState = <<>> /\ uNow = 0 /\ uLastSet = "none" /\ uReply = <<>> /\ uCalls = 0

(***************************************************************************)
(* SpecChunk: splitCaptionText on bounded texts                            *)
(***************************************************************************)
MaxTextWords == 7

\* Word shapes: a short word, a word of half the default character limit,
\* and a word longer than the default character limit.
WordForms == {<<1>>, <<18>>, <<37>>}

\* maxWords / maxChars pairs tried: the defaults, tight limits, no limits.
ChunkLimits == {<<6, 36>>, <<2, 19>>, <<0, 0>>}

\* A text whose words are ws, separated by sep whitespace characters and
\* padded by pad whitespace characters at both ends.
RECURSIVE Spaces(_)
Spaces(n) == IF n = 0 THEN <<>> ELSE <<0>> \o Spaces(n - 1)

RECURSIVE JoinWith(_, _)
JoinWith(ws, sep) ==
    IF ws = <<>> THEN <<>>
    ELSE IF Len(ws) = 1 THEN Head(ws)
    ELSE Head(ws) \o Spaces(sep) \o JoinWith(Tail(ws), sep)

MkText(ws, sep, pad) == Spaces(pad) \o JoinWith(ws, sep) \o Spaces(pad)

ChunkInputs ==
    {MkText(ws, sep, pad) : ws \in SeqsUpTo(WordForms, MaxTextWords),
                            sep \in {1, 2}, pad \in {0, 1}}

InitChunk ==
    /\ cpc = "input"
    /\ cText \in ChunkInputs
    /\ \E lim \in ChunkLimits : cMaxWords = lim[1] /\ cMaxChars = lim[2]
    /\ cChunks = <<>>
    /\ AssIdle
    /\ RunIdle
    /\ NormIdle
    /\ NameIdle /\ UpdateIdle

Split ==
    /\ cpc = "input"
    /\ cChunks' = splitCaptionText(cText, cMaxWords, cMaxChars)
    /\ cpc' = "done"
    /\ UNCHANGED <<cText, cMaxWords, cMaxChars>>
    /\ UNCHANGED <<assVars, runVars, normVars, nameVars, updateVars>>

NextChunk == Split

SpecChunk == InitChunk /\ [][NextChunk]_vars

\* The whitespace-normalized text, computed on the characters: leading and
\* trailing whitespace dropped, every inner whitespace run made one space.
RECURSIVE Collapse(_, _)
Collapse(s, afterSpace) ==
    IF s = <<>> THEN <<>>
    ELSE IF Head(s) = 0
         THEN (IF afterSpace THEN <<>> ELSE <<0>>) \o Collapse(Tail(s), TRUE)
         ELSE <<Head(s)>> \o Collapse(Tail(s), FALSE)

Normalize(text) ==
    LET c == Collapse(text, TRUE)
    IN  IF c # <<>> /\ c[Len(c)] = 0 THEN SubSeq(c, 1, Len(c) - 1) ELSE c

ChunkWordCount(chunk) == Len(Words(chunk))

\* C5 as stated: with maxWords = 6 and maxChars = 36 every returned chunk has
\* at most 6 words and at most 36 rendered characters, for any text.
C5_AsStated ==
    (cpc = "done" /\ cMaxWords = 6 /\ cMaxChars = 36) =>
        \A i \in 1..Len(cChunks) :
            ChunkWordCount(cChunks[i]) <= 6 /\ StrLen(cChunks[i]) <= 36

\* C5 amended: with maxWords = 6 and maxChars = 36 every returned chunk has
\* at most 6 words, and at most 36 rendered characters unless the chunk is a
\* single word that is itself longer than 36 characters.
C5_ChunkBounds ==
    (cpc = "done" /\ cMaxWords = 6 /\ cMaxChars = 36) =>
        \A i \in 1..Len(cChunks) :
            /\ ChunkWordCount(cChunks[i]) <= 6
            /\ \/ StrLen(cChunks[i]) <= 36
               \/ ChunkWordCount(cChunks[i]) = 1

\* C5 witness: a split with the default limits that returned a full chunk of
\* 6 words followed by an over-long word as a chunk of its own.
C5_Witness ==
    /\ cpc = "done" /\ cMaxWords = 6 /\ cMaxChars = 36
    /\ Len(Words(cText)) = 7
    /\ \E i \in 1..Len(cChunks) : ChunkWordCount(cChunks[i]) = 6
    /\ \E i \in 1..Len(cChunks) : StrLen(cChunks[i]) > 36

\* C6 as stated: for a text with at least one word and any limits,
\* splitCaptionText returns at least one chunk and the chunks joined by single
\* spaces are exactly the whitespace-normalized text.
C6_AsStated ==
    (cpc = "done" /\ Words(cText) # <<>>) =>
        /\ Len(cChunks) >= 1
        /\ JoinSpace(cChunks) = Normalize(cText)

(***************************************************************************)
(* Time conversions (processor.cjs 86-94, 121-140)                         *)
(*                                                                         *)
(* An SRT timestamp hh:mm:ss,mmm is <<h, m, s, ms>>; an ASS timestamp      *)
(* h:mm:ss.cc is <<h, m, s, cc>>.  Seconds are carried in milliseconds; a  *)
(* fractional time is the exact quotient num / den milliseconds.           *)
(***************************************************************************)
\* parseSrtTime: "hh:mm:ss,mmm" -> "h:mm:ss.cc", centis = floor(ms / 10).
parseSrtTime(stamp) == <<stamp[1], stamp[2], stamp[3], stamp[4] \div 10>>

\* parseAssSeconds: hours*3600 + minutes*60 + seconds + centis/100, in ms.
parseAssSeconds(t) == (t[1] * 3600 + t[2] * 60 + t[3]) * 1000 + t[4] * 10

\* formatAssSeconds(totalSeconds) for totalSeconds = num / den ms >= 0.
\* whole is Math.floor(totalSeconds).
formatAssSeconds(num, den) ==
    LET whole  == num \div (den * 1000)
        centis == ((num - whole * den * 1000) * 100) \div (den * 1000)
    IN  <<whole \div 3600, (whole % 3600) \div 60, whole % 60, centis>>

\* The SRT timestamp of a time in ms (what the Speech Engine writes).
SrtStamp(ms) ==
    <<ms \div 3600000, (ms \div 60000) % 60, (ms \div 1000) % 60, ms % 1000>>

\* An ASS timestamp read back, in centiseconds.
AssCentis(t) == (t[1] * 3600 + t[2] * 60 + t[3]) * 100 + t[4]

(***************************************************************************)
(* Settings defaults: x || d takes d when x is 0 or absent                 *)
(***************************************************************************)
OrDefault(x, d) == IF x = 0 THEN d ELSE x

DefaultCaptionSpeed == 100

DefaultMinWordDurationMs == 120

DefaultCaptionMaxWords == 6

DefaultCaptionMaxChars == 36

\* Math.max(adjustedEnd - adjustedStart, 0.1) of buildAssFromSrt, in ms.
MinBlockTotalMs == 100

(***************************************************************************)
(* The remapping shared by the two builders (processor.cjs 308-309,        *)
(* 424-425)                                                                *)
(***************************************************************************)
\* The remapping with timeScale taken as 1 whatever the speed.
adjustTimeUnscaled(clipped, selectionStart, offset, speed) ==
    Max2((clipped - selectionStart) * speed + offset * speed, 0)

\* Math.max((clipped - selectionStart) * timeScale + offsetSec, 0) with
\* timeScale = 100 / speed: the numerator over the denominator speed, in ms.
adjustTime(clipped, selectionStart, offset, speed) ==
    Max2((clipped - selectionStart) * 100 + offset * speed, 0)

(***************************************************************************)
(* buildAssFromWordList (processor.cjs 231-322)                            *)
(***************************************************************************)
\* The filter that keeps every word.
WordInWindowAlways(word, selection) == TRUE

\* The filter of line 299-304: the word overlaps the selection window.
WordInWindow(word, selection) ==
    LET selectionStart == selection.start
        selectionEnd   == selectionStart + selection.duration
    IN  ~(selectionEnd > 0 /\ (word.end <= selectionStart \/ word.start >= selectionEnd))

\* The map with every word given the minimum duration, whatever its span.
WordEventFixedWidth(word, settings, selection, offset) ==
    LET selectionStart == selection.start
        speed          == OrDefault(settings.captionSpeed, DefaultCaptionSpeed)
        minWordMs      == OrDefault(settings.minWordDurationMs, DefaultMinWordDurationMs)
        clippedStart   == Max2(word.start, selectionStart)
        adjustedStart  == adjustTime(clippedStart, selectionStart, offset, speed)
    IN  [start |-> formatAssSeconds(adjustedStart, speed),
         end   |-> formatAssSeconds(adjustedStart + minWordMs * speed, speed),
         text  |-> word.text]

\* The map of line 305-316: one dialogue line per kept word.  adjustedStart
\* and adjustedEnd are numerators over the denominator speed (timeScale is
\* 100 / speed).
WordEvent(word, settings, selection, offset) ==
    LET selectionStart == selection.start
        selectionEnd   == selectionStart + selection.duration
        speed          == OrDefault(settings.captionSpeed, DefaultCaptionSpeed)
        minWordMs      == OrDefault(settings.minWordDurationMs, DefaultMinWordDurationMs)
        clippedStart   == Max2(word.start, selectionStart)
        clippedEnd     == IF selectionEnd > 0 THEN Min2(word.end, selectionEnd) ELSE word.end
        adjustedStart  == adjustTime(clippedStart, selectionStart, offset, speed)
        adjustedEnd0   == adjustTime(clippedEnd, selectionStart, offset, speed)
        adjustedEnd    == IF adjustedEnd0 - adjustedStart < minWordMs * speed
                          THEN adjustedStart + minWordMs * speed
                          ELSE adjustedEnd0
    IN  [start |-> formatAssSeconds(adjustedStart, speed),
         end   |-> formatAssSeconds(adjustedEnd, speed),
         text  |-> word.text]

RECURSIVE WordEvents(_, _, _, _)
WordEvents(words, settings, selection, offset) ==
    IF words = <<>> THEN <<>>
    ELSE (IF WordInWindow(Head(words), selection)
          THEN <<WordEvent(Head(words), settings, selection, offset)>>
          ELSE <<>>)
         \o WordEvents(Tail(words), settings, selection, offset)

\* Throws "No word timestamps found" on an empty list; otherwise writes the
\* document whose dialogue lines are the events.
buildAssFromWordList(words, settings, selection, offset) ==
    IF words = <<>>
    THEN [threw |-> TRUE, events |-> <<>>]
    ELSE [threw |-> FALSE, events |-> WordEvents(words, settings, selection, offset)]

(***************************************************************************)
(* buildAssFromSrt (processor.cjs 329-448)                                 *)
(*                                                                         *)
(* A block is [start, end: SRT timestamps of its time line, text: its text *)
(* lines joined by a space].                                               *)
(***************************************************************************)
\* String.prototype.trim
RECURSIVE TrimStart(_)
TrimStart(s) ==
    IF s = <<>> THEN <<>>
    ELSE IF Head(s) = 0 THEN TrimStart(Tail(s)) ELSE s

RECURSIVE TrimEnd(_)
TrimEnd(s) ==
    IF s = <<>> THEN <<>>
    ELSE IF s[Len(s)] = 0 THEN TrimEnd(SubSeq(s, 1, Len(s) - 1)) ELSE s

Trim(s) == TrimEnd(TrimStart(s))

\* The chunk events of line 437-441: slice index of n over [start, start+total].
RECURSIVE ChunkEvents(_, _, _, _, _, _)
ChunkEvents(chunks, index, n, adjustedStart, total, speed) ==
    IF chunks = <<>> THEN <<>>
    ELSE <<[start |-> formatAssSeconds(adjustedStart * n + total * index, speed * n),
            end   |-> formatAssSeconds(adjustedStart * n + total * (index + 1), speed * n),
            text  |-> Head(chunks)]>>
         \o ChunkEvents(Tail(chunks), index + 1, n, adjustedStart, total, speed)

\* The flatMap body of line 401-442 for one block.
BlockEvents(block, settings, selection, offset) ==
    LET maxWords       == OrDefault(settings.captionMaxWords, DefaultCaptionMaxWords)
        maxChars       == OrDefault(settings.captionMaxChars, DefaultCaptionMaxChars)
        selectionStart == selection.start
        selectionEnd   == selectionStart + selection.duration
        speed          == OrDefault(settings.captionSpeed, DefaultCaptionSpeed)
        startSec       == parseAssSeconds(parseSrtTime(block.start))
        endSec         == parseAssSeconds(parseSrtTime(block.end))
        clippedStart   == Max2(startSec, selectionStart)
        clippedEnd     == IF selectionEnd > 0 THEN Min2(endSec, selectionEnd) ELSE endSec
        text           == Trim(block.text)
        chunks         == splitCaptionText(text, maxWords, maxChars)
        adjustedStart  == adjustTime(clippedStart, selectionStart, offset, speed)
        adjustedEnd    == adjustTime(clippedEnd, selectionStart, offset, speed)
        total          == Max2(adjustedEnd - adjustedStart, MinBlockTotalMs * speed)
    IN  IF selectionEnd > 0 /\ (endSec <= selectionStart \/ startSec >= selectionEnd)
        THEN <<>>
        ELSE IF clippedEnd <= clippedStart THEN <<>>
        ELSE IF text = <<>> THEN <<>>
        ELSE IF Len(chunks) <= 1
        THEN <<[start |-> formatAssSeconds(adjustedStart, speed),
                end   |-> formatAssSeconds(adjustedEnd, speed),
                text  |-> text]>>
        ELSE ChunkEvents(chunks, 0, Len(chunks), adjustedStart, total, speed)

RECURSIVE buildAssFromSrt(_, _, _, _)
buildAssFromSrt(blocks, settings, selection, offset) ==
    IF blocks = <<>> THEN <<>>
    ELSE BlockEvents(Head(blocks), settings, selection, offset)
         \o buildAssFromSrt(Tail(blocks), settings, selection, offset)

(***************************************************************************)
(* SpecAss: the two builders on bounded timed units                        *)
(***************************************************************************)
MaxUnits == 2

\* Times of the units, in ms.
TimePoints == {0, 20, 30, 400, 1000, 1500}

\* Texts of SRT blocks under the default limits: one chunk, two chunks (seven
\* short words), three chunks (three words of 18 characters).
BlockTexts ==
    {<<3>>,
     <<1, 0, 1, 0, 1, 0, 1, 0, 1, 0, 1, 0, 1>>,
     <<18, 0, 18, 0, 18>>}

AssSettings ==
    [captionSpeed      : {100, 200, 80},
     minWordDurationMs : {120, 50},
     captionMaxWords   : {6},
     captionMaxChars   : {36}]

AssSelections == {[start |-> 0, duration |-> 1000], [start |-> 400, duration |-> 1000]}

\* captionOffsetMs / 1000 + the detected leading silence, in ms.
AssOffsets == {0, -500, 100}

Spans == {sp \in TimePoints \X TimePoints : sp[1] <= sp[2]}

\* Units ordered by start time, each with end >= start.
OrderedSpans ==
    {sq \in SeqsUpTo(Spans, MaxUnits) :
        \A i \in 1..(Len(sq) - 1) : sq[i][1] <= sq[i + 1][1]}

WordInputs ==
    {[i \in 1..Len(sq) |-> [start |-> sq[i][1], end |-> sq[i][2], text |-> <<4 + i>>]] :
        sq \in OrderedSpans}

BlockInputs ==
    UNION {
        {[i \in 1..Len(sq) |-> [start |-> SrtStamp(sq[i][1]),
                                end   |-> SrtStamp(sq[i][2]),
                                text  |-> tx[i]]] :
            tx \in [1..Len(sq) -> BlockTexts]} :
        sq \in OrderedSpans}

InitAss ==
    /\ bpc = "input"
    /\ bKind \in {"words", "srt"}
    /\ bUnits \in (IF bKind = "words" THEN WordInputs ELSE BlockInputs)
    /\ bSettings \in AssSettings
    /\ bSelection \in AssSelections
    /\ bOffset \in AssOffsets
    /\ bEvents = <<>>
    /\ ChunkIdle
    /\ RunIdle
    /\ NormIdle
    /\ NameIdle /\ UpdateIdle

\* buildAssFromWordList on parsed words; an empty list throws and writes
\* nothing.
BuildFromWords ==
    /\ bpc = "input" /\ bKind = "words"
    /\ LET r == buildAssFromWordList(bUnits, bSettings, bSelection, bOffset)
       IN  /\ bEvents' = r.events
           /\ bpc' = IF r.threw THEN "threw" ELSE "built"
    /\ UNCHANGED <<bKind, bUnits, bSettings, bSelection, bOffset>>
    /\ UNCHANGED <<chunkVars, runVars, normVars, nameVars, updateVars>>

BuildFromSrt ==
    /\ bpc = "input" /\ bKind = "srt"
    /\ bEvents' = buildAssFromSrt(bUnits, bSettings, bSelection, bOffset)
    /\ bpc' = "built"
    /\ UNCHANGED <<bKind, bUnits, bSettings, bSelection, bOffset>>
    /\ UNCHANGED <<chunkVars, runVars, normVars, nameVars, updateVars>>

NextAss == BuildFromWords \/ BuildFromSrt

SpecAss == InitAss /\ [][NextAss]_vars

\* The minimum visible duration the settings ask for, in ms.
MinWordMs == OrDefault(bSettings.minWordDurationMs, DefaultMinWordDurationMs)

EventStartCs(i) == AssCentis(bEvents[i].start)

EventEndCs(i) == AssCentis(bEvents[i].end)

\* C4 as stated: every dialogue line written by either builder has
\* start >= 0 and end - start >= the minimum word duration.
C4_AsStated ==
    bpc = "built" =>
        \A i \in 1..Len(bEvents) :
            /\ EventStartCs(i) >= 0
            /\ (EventEndCs(i) - EventStartCs(i)) * 10 >= MinWordMs

\* C10 as stated: for units ordered by start time, the dialogue lines of the
\* document are in non-decreasing start-time order, in both builders.
C10_AsStated ==
    bpc = "built" =>
        \A i \in 1..(Len(bEvents) - 1) : EventStartCs(i) <= EventStartCs(i + 1)

(***************************************************************************)
(* One run of processVideo (processor.cjs 450-592) with                    *)
(* transcribeWithWhisper (main.cjs 554-599)                                *)
(*                                                                         *)
(* An action is the code that runs between two awaits.  The Provisioner,   *)
(* the Speech Engine and the Encoder Engine are external: what they write  *)
(* and how they exit is chosen nondeterministically.  A transcript file is *)
(* known by the class of its contents, which is all the control flow of    *)
(* processVideo depends on:                                                *)
(*   .srt  "lines"                                                         *)
(*   .wts  "words" (parseWtsFile returns words) | "nolines" (it returns [])*)
(*         | "unreadable" (readFileSync throws)                            *)
(*   .json "tokens" (parseWhisperJson returns words) | "notokens" (it      *)
(*         returns []) | "malformed" (JSON.parse throws)                   *)
(***************************************************************************)
RunOut == "output/short-T.mp4"

RunWav == "audio/input.wav"

RunSrt == "captions/captions-T.srt"

RunWts == "captions/captions-T.wts"

RunJson == "captions/captions-T.json"

RunAss == "captions/captions-T2.ass"

\* Transcripts left in the captions directory before the run starts.
StaleSrt == {"captions/old1.srt", "captions/old2.srt"}

StaleWts == {"captions/old.wts"}

SrtNames == {RunSrt} \cup StaleSrt

WtsNames == {RunWts} \cup StaleWts

TranscriptNames == SrtNames \cup WtsNames \cup {RunJson}

\* fs.statSync(...).mtimeMs: the stale files are older than anything the run
\* writes, old1.srt older than old2.srt.
Mtime(f) ==
    CASE f = "captions/old1.srt" -> 1
      [] f = "captions/old2.srt" -> 2
      [] f = "captions/old.wts"  -> 1
      [] OTHER                   -> 3

\* findLatestSrt sorting oldest first.
findLatestSrtOldest(fs) ==
    LET srtFiles == fs \cap SrtNames
    IN  IF srtFiles = {} THEN NoPath
        ELSE CHOOSE f \in srtFiles : \A g \in srtFiles : Mtime(f) <= Mtime(g)

\* main.cjs 528-539: the .srt of the directory with the greatest mtime.
findLatestSrt(fs) ==
    LET srtFiles == fs \cap SrtNames
    IN  IF srtFiles = {} THEN NoPath
        ELSE CHOOSE f \in srtFiles : \A g \in srtFiles : Mtime(g) <= Mtime(f)

\* main.cjs 541-552
findLatestWts(fs) ==
    LET wtsFiles == fs \cap WtsNames
    IN  IF wtsFiles = {} THEN NoPath
        ELSE CHOOSE f \in wtsFiles : \A g \in wtsFiles : Mtime(g) <= Mtime(f)

\* main.cjs 581-598: what transcribeWithWhisper returns or throws once the
\* Speech Engine has exited with code 0 and the directory holds fs.
transcribeReturn(fs) ==
    LET hasSrt       == RunSrt \in fs
        hasWts       == RunWts \in fs
        hasJson      == RunJson \in fs
        fallbackWts  == IF hasWts THEN RunWts ELSE findLatestWts(fs)
        fallbackJson == IF hasJson THEN RunJson ELSE NoPath
        fallback     == findLatestSrt(fs)
    IN  IF ~hasSrt
        THEN IF fallback # NoPath
             THEN [threw |-> FALSE, srtPath |-> fallback, wtsPath |-> fallbackWts,
                   jsonPath |-> fallbackJson, wavPath |-> RunWav]
             ELSE [threw |-> TRUE, srtPath |-> NoPath, wtsPath |-> NoPath,
                   jsonPath |-> NoPath, wavPath |-> NoPath]
        ELSE [threw |-> FALSE, srtPath |-> RunSrt, wtsPath |-> fallbackWts,
              jsonPath |-> fallbackJson, wavPath |-> RunWav]

(***************************************************************************)
(* Progress events                                                         *)
(***************************************************************************)
MsgWtsMissing == "Word timestamps missing in .wts, trying JSON..."

MsgUsingSrt == "Word timestamps not supported by this binary. Using SRT lines."

\* Math.round(a / b) for a >= 0, b > 0
RoundDiv(a, b) == (2 * a + b) \div (2 * b)

\* main.cjs 356-361: 10, then 10 + round(pct/100 * 20) per data event (here
\* at 50% and 100%), then 35.
BinaryDownloadProgress ==
    <<<<10, "Whisper: downloading binary...">>,
      <<10 + RoundDiv(50 * 20, 100), "Whisper: downloading binary...">>,
      <<10 + RoundDiv(100 * 20, 100), "Whisper: downloading binary...">>,
      <<35, "Whisper: extracting binary...">>>>

\* main.cjs 448-451: 5, then 5 + round(pct/100 * 25) per data event.
ModelDownloadProgress ==
    <<<<5, "Whisper: downloading model...">>,
      <<5 + RoundDiv(50 * 25, 100), "Whisper: downloading model...">>,
      <<5 + RoundDiv(100 * 25, 100), "Whisper: downloading model...">>>>

(***************************************************************************)
(* The subtitle source chain (processor.cjs 509-532)                       *)
(***************************************************************************)
\* The chain with the token data tried before the word-timing file.
buildSubtitlesJsonFirst(wordLevel, cap, wts, json, cont) ==
    LET jsonTried == wordLevel /\ json # NoPath
        jsonThrew == jsonTried /\ cont[json] = "malformed"
        jsonBuilt == jsonTried /\ cont[json] = "tokens"
        wtsTried  == wordLevel /\ ~jsonBuilt /\ ~jsonThrew /\ wts # NoPath
        wtsBuilt  == wtsTried /\ cont[wts] = "words"
        srtUsed   == ~wtsBuilt /\ ~jsonBuilt /\ ~jsonThrew
    IN  [threw     |-> jsonThrew,
         source    |-> IF jsonThrew THEN "none" ELSE IF jsonBuilt THEN "json"
                       ELSE IF wtsBuilt THEN "wts" ELSE "srt",
         consulted |-> (IF jsonTried THEN <<json>> ELSE <<>>)
                       \o (IF wtsTried THEN <<wts>> ELSE <<>>)
                       \o (IF srtUsed THEN <<cap>> ELSE <<>>),
         msgs      |-> (IF wtsTried /\ ~wtsBuilt THEN <<<<35, MsgWtsMissing>>>> ELSE <<>>)
                       \o (IF wordLevel /\ srtUsed THEN <<<<35, MsgUsingSrt>>>> ELSE <<>>)]

\* Which builder writes the document, which files are read on the way, the
\* progress messages sent, and whether an exception escapes.  buildAssFromWts
\* runs inside try/catch; parseWhisperJson does not.
buildSubtitles(wordLevel, cap, wts, json, cont) ==
    LET wtsTried  == wordLevel /\ wts # NoPath
        wtsBuilt  == wtsTried /\ cont[wts] = "words"
        jsonTried == wordLevel /\ ~wtsBuilt /\ json # NoPath
        jsonThrew == jsonTried /\ cont[json] = "malformed"
        jsonBuilt == jsonTried /\ cont[json] = "tokens"
        srtUsed   == ~wtsBuilt /\ ~jsonBuilt /\ ~jsonThrew
    IN  [threw     |-> jsonThrew,
         source    |-> IF wtsBuilt THEN "wts" ELSE IF jsonThrew THEN "none"
                       ELSE IF jsonBuilt THEN "json" ELSE "srt",
         consulted |-> (IF wtsTried THEN <<wts>> ELSE <<>>)
                       \o (IF jsonTried THEN <<json>> ELSE <<>>)
                       \o (IF srtUsed THEN <<cap>> ELSE <<>>),
         msgs      |-> (IF wtsTried /\ ~wtsBuilt THEN <<<<35, MsgWtsMissing>>>> ELSE <<>>)
                       \o (IF wordLevel /\ srtUsed THEN <<<<35, MsgUsingSrt>>>> ELSE <<>>)]

(***************************************************************************)
(* The encoder's filter chain (processor.cjs 496-542)                      *)
(*                                                                         *)
(* A stage is [filter, arg].  The paths of the model hold no backslash,    *)
(* colon or quote, the characters that lines 537-540 rewrite in the path   *)
(* of the subtitle document.                                               *)
(***************************************************************************)
ScaleStage == [filter |-> "scale", arg |-> "1080:1920:force_original_aspect_ratio=increase"]

CropStage == [filter |-> "crop", arg |-> "1080:1920"]

\* The chain with the subtitle stage left out.
buildFilterChainNoSubtitles(burnCaptions, ass) == <<ScaleStage, CropStage>>

\* processor.cjs 496-499 and 541: scale, crop and, with captions, the
\* subtitle stage pushed last.
buildFilterChain(burnCaptions, ass) ==
    <<ScaleStage, CropStage>>
        \o (IF burnCaptions THEN <<[filter |-> "subtitles", arg |-> ass]>> ELSE <<>>)

(***************************************************************************)
(* Outcomes reported to the caller                                         *)
(*   NoInput     "No input video provided"                                 *)
(*   Provision, Wav, WhisperExit, MissingSrt                               *)
(*               "Whisper failed: <cause>" (processor.cjs 488-491)         *)
(*   BuildThrew  the exception that escaped the subtitle builders          *)
(*   FFmpeg      "FFmpeg failed. Install FFmpeg or bundle ffmpeg-static."  *)
(***************************************************************************)
Failed(e) == [status |-> "error", error |-> e]

\* processor.cjs 581: { outputPath, message }.
Succeeded == [status |-> "ok", error |-> "none", outputPath |-> RunOut]

\* Data events modelled per child process.
MaxDataChunks == 1

\* A chunk of the encoder's stderr: blank or not, the value of its Duration:
\* marker and of its time= marker in centiseconds (0: no marker, or a marker
\* of zero, which the code treats alike).
FfmpegChunks ==
    {[blank |-> TRUE, duration |-> 0, time |-> 0],
     [blank |-> FALSE, duration |-> 0, time |-> 0],
     [blank |-> FALSE, duration |-> 1000, time |-> 0],
     [blank |-> FALSE, duration |-> 3000, time |-> 0],
     [blank |-> FALSE, duration |-> 0, time |-> 500],
     [blank |-> FALSE, duration |-> 0, time |-> 1500],
     [blank |-> FALSE, duration |-> 1000, time |-> 1500]}

\* The chunks tried inside a whole run: blank, a Duration: marker, both
\* markers at once.
PipelineChunks == {c \in FfmpegChunks : c.blank \/ c.duration = 1000}

\* Data events modelled for the encoder when it is studied on its own.
MaxEncoderChunks == 4

\* What the Speech Engine may have written when it exits with code 0.
EngineOutputs(wordLevel) ==
    {out \in [{RunSrt, RunWts, RunJson} -> 
                {"absent", "lines", "words", "nolines", "unreadable",
                 "tokens", "notokens", "malformed"}] :
        /\ out[RunSrt] \in {"absent", "lines"}
        /\ out[RunWts] \in (IF wordLevel THEN {"absent", "words", "nolines", "unreadable"}
                            ELSE {"absent"})
        /\ out[RunJson] \in (IF wordLevel THEN {"absent", "tokens", "notokens", "malformed"}
                             ELSE {"absent"})}

Stale == StaleSrt \cup StaleWts

Init ==
    /\ pc = "start"
    /\ payload \in [hasInput : BOOLEAN, burnCaptions : BOOLEAN,
                    wordLevelCaptions : BOOLEAN, autoCaptionOffset : BOOLEAN]
    /\ files \in SUBSET Stale
    /\ content = [f \in TranscriptNames |->
                    IF f \in StaleSrt THEN "lines"
                    ELSE IF f \in StaleWts THEN "words" ELSE "absent"]
    /\ captionsPath = NoPath /\ wtsPath = NoPath /\ jsonPath = NoPath
    /\ wavPath = NoPath /\ assPath = NoPath
    /\ progress = <<>> /\ consulted = <<>> /\ assSource = "none"
    /\ created = {} /\ unlinkFailed = {} /\ result = Pending
    /\ totalSeconds = 0 /\ nData = 0
    /\ ffmpegLog = <<>> /\ encoderExit = "none" /\ encoderSpawns = 0
    /\ filterChain = <<>>
    /\ ChunkIdle /\ AssIdle /\ NormIdle
    /\ NameIdle /\ UpdateIdle

\* processor.cjs 450-476 and main.cjs 554-562: up to the await of
\* ensureWhisperBinary, or, without captions, up to the spawn of the encoder
\* (494-569).
Start ==
    /\ pc = "start"
    /\ IF ~payload.hasInput
       THEN /\ result' = Failed("NoInput")
            /\ pc' = "done"
            /\ UNCHANGED <<progress, encoderSpawns, filterChain>>
       ELSE IF payload.burnCaptions
       THEN /\ progress' = progress \o <<<<5, "Analyzing audio + reactions...">>,
                                         <<15, "Running Whisper transcription...">>>>
            /\ pc' = "binary"
            /\ UNCHANGED <<result, encoderSpawns, filterChain>>
       ELSE /\ progress' = progress \o <<<<5, "Analyzing audio + reactions...">>,
                                         <<30, "Preparing FFmpeg...">>>>
            /\ pc' = "encode"
            /\ encoderSpawns' = encoderSpawns + 1
            /\ filterChain' = buildFilterChain(FALSE, NoPath)
            /\ UNCHANGED result
    /\ UNCHANGED <<payload, files, content, pathVars, consulted, assSource, created,
                   unlinkFailed, totalSeconds, nData, ffmpegLog, encoderExit>>
    /\ UNCHANGED <<chunkVars, assVars, normVars, nameVars, updateVars>>

\* main.cjs 387-413: the binary is there, or is downloaded, or cannot be had.
EnsureBinary ==
    /\ pc = "binary"
    /\ \E outcome \in {"cached", "download", "legacy", "fail"} :
         CASE outcome = "cached" ->
                /\ pc' = "model" /\ UNCHANGED <<progress, result>>
           [] outcome = "download" ->
                /\ pc' = "model" /\ progress' = progress \o BinaryDownloadProgress
                /\ UNCHANGED result
           [] outcome = "legacy" ->
                /\ pc' = "model"
                /\ progress' = progress
                                \o <<<<5, "Whisper: removing deprecated binary...">>>>
                                \o BinaryDownloadProgress
                /\ UNCHANGED result
           [] outcome = "fail" ->
                /\ pc' = "done" /\ result' = Failed("Provision")
                /\ progress' = progress
    /\ UNCHANGED <<payload, files, content, pathVars, consulted, assSource, created,
                   unlinkFailed, totalSeconds, nData, encVars>>
    /\ UNCHANGED <<chunkVars, assVars, normVars, nameVars, updateVars>>

\* main.cjs 436-453 and 565-566: the model is there, or is downloaded, or is
\* unknown or cannot be had; then the audio conversion is started.
EnsureModel ==
    /\ pc = "model"
    /\ \E outcome \in {"cached", "download", "fail"} :
         CASE outcome = "cached" ->
                /\ pc' = "wav"
                /\ progress' = Append(progress, <<40, "Whisper: preparing audio...">>)
                /\ UNCHANGED result
           [] outcome = "download" ->
                /\ pc' = "wav"
                /\ progress' = Append(progress \o ModelDownloadProgress,
                                      <<40, "Whisper: preparing audio...">>)
                /\ UNCHANGED result
           [] outcome = "fail" ->
                /\ pc' = "done" /\ result' = Failed("Provision")
                /\ progress' = progress
    /\ UNCHANGED <<payload, files, content, pathVars, consulted, assSource, created,
                   unlinkFailed, totalSeconds, nData, encVars>>
    /\ UNCHANGED <<chunkVars, assVars, normVars, nameVars, updateVars>>

\* main.cjs 498-526 and 568-579: the conversion child closes; on code 0 the
\* WAV exists and the Speech Engine is started.
ConvertToWavClose ==
    /\ pc = "wav"
    /\ \E code \in {0, 1} :
         IF code = 0
         THEN /\ files' = files \cup {RunWav}
              /\ created' = created \cup {RunWav}
              /\ progress' = Append(progress, <<55, "Whisper: transcribing...">>)
              /\ pc' = "whisper"
              /\ UNCHANGED result
         ELSE /\ result' = Failed("Wav")
              /\ pc' = "done"
              /\ UNCHANGED <<files, created, progress>>
    /\ nData' = 0
    /\ UNCHANGED <<payload, content, pathVars, consulted, assSource, unlinkFailed,
                   totalSeconds, encVars>>
    /\ UNCHANGED <<chunkVars, assVars, normVars, nameVars, updateVars>>

\* main.cjs 465-478: a chunk of the Speech Engine's output naming
\* "processing".
WhisperData ==
    /\ pc = "whisper"
    /\ nData < MaxDataChunks
    /\ nData' = nData + 1
    /\ progress' = Append(progress, <<60, "Whisper: transcribing...">>)
    /\ UNCHANGED <<pc, payload, files, content, pathVars, consulted, assSource, created,
                   unlinkFailed, result, totalSeconds, encVars>>
    /\ UNCHANGED <<chunkVars, assVars, normVars, nameVars, updateVars>>

\* The stage after the subtitle builders, with the encoder spawned whether or
\* not they threw.
StageAfterBuildAlways(threw) == "encode"

\* processor.cjs 509-569: an exception of the builders leaves processVideo;
\* otherwise the encoder is spawned.
StageAfterBuild(threw) == IF threw THEN "done" ELSE "encode"

\* processor.cjs 509-569, from the built paths on: the subtitle document is
\* written by the first source that works and the encoder is spawned, or an
\* exception escapes processVideo.
BuildAndSpawn(cap, wts, json, cont, fs, cr, prog) ==
    LET b == buildSubtitles(payload.wordLevelCaptions, cap, wts, json, cont)
    IN  /\ consulted' = b.consulted
        /\ progress' = prog \o b.msgs
        /\ assSource' = b.source
        /\ pc' = StageAfterBuild(b.threw)
        /\ encoderSpawns' = IF StageAfterBuild(b.threw) = "encode"
                            THEN encoderSpawns + 1 ELSE encoderSpawns
        /\ filterChain' = IF StageAfterBuild(b.threw) = "encode"
                          THEN buildFilterChain(TRUE, IF b.threw THEN NoPath ELSE RunAss)
                          ELSE filterChain
        /\ IF b.threw
           THEN /\ assPath' = NoPath /\ files' = fs /\ created' = cr
                /\ result' = Failed("BuildThrew")
           ELSE /\ assPath' = RunAss /\ files' = fs \cup {RunAss}
                /\ created' = cr \cup {RunAss}
                /\ result' = result
        /\ nData' = 0
        /\ totalSeconds' = 0
        /\ UNCHANGED <<ffmpegLog, encoderExit>>

\* main.cjs 479-495 and 581-598, processor.cjs 484-508: the Speech Engine
\* closes.  On code 0 its files are looked up, processVideo takes the paths
\* and goes on to the leading-silence probe (an await) or straight to the
\* subtitle document.
WhisperClose ==
    /\ pc = "whisper"
    /\ \E code \in {0, 1} :
         IF code # 0
         THEN /\ result' = Failed("WhisperExit")
              /\ pc' = "done"
              /\ UNCHANGED <<files, content, pathVars, progress, consulted, assSource,
                             created, totalSeconds, nData, encVars>>
         ELSE \E out \in EngineOutputs(payload.wordLevelCaptions) :
              LET written == {f \in {RunSrt, RunWts, RunJson} : out[f] # "absent"}
                  fs      == files \cup written
                  cont    == [f \in TranscriptNames |->
                                IF f \in written THEN out[f] ELSE content[f]]
                  cr      == created \cup written
                  r       == transcribeReturn(fs)
                  prog    == Append(progress, <<30, "Preparing FFmpeg...">>)
              IN  /\ content' = cont
                  /\ IF r.threw
                     THEN /\ result' = Failed("MissingSrt")
                          /\ pc' = "done"
                          /\ files' = fs /\ created' = cr
                          /\ UNCHANGED <<pathVars, progress, consulted, assSource,
                                         totalSeconds, nData, encVars>>
                     ELSE /\ captionsPath' = r.srtPath
                          /\ wtsPath' = r.wtsPath
                          /\ jsonPath' = r.jsonPath
                          /\ wavPath' = r.wavPath
                          /\ IF payload.autoCaptionOffset
                             THEN /\ pc' = "silence"
                                  /\ progress' = prog
                                  /\ files' = fs /\ created' = cr
                                  /\ UNCHANGED <<assPath, consulted, assSource, result,
                                                 totalSeconds, nData, encVars>>
                             ELSE BuildAndSpawn(r.srtPath, r.wtsPath, r.jsonPath,
                                                cont, fs, cr, prog)
    /\ UNCHANGED <<payload, unlinkFailed>>
    /\ UNCHANGED <<chunkVars, assVars, normVars, nameVars, updateVars>>

\* processor.cjs 142-168 and 506-569: detectLeadingSilenceSec resolves.
SilenceClose ==
    /\ pc = "silence"
    /\ BuildAndSpawn(captionsPath, wtsPath, jsonPath, content, files, created, progress)
    /\ UNCHANGED <<payload, content, captionsPath, wtsPath, jsonPath, wavPath,
                   unlinkFailed>>
    /\ UNCHANGED <<chunkVars, assVars, normVars, nameVars, updateVars>>

\* processor.cjs 145-164: the probe's child emits 'error' (it could not be
\* started).  The child has no 'error' listener and the promise is settled
\* by 'close' alone: the exception is raised outside processVideo, the await
\* of line 506 never returns, and nothing after it runs.
SilenceSpawnError ==
    /\ pc = "silence"
    /\ pc' = "stuck"
    /\ UNCHANGED <<payload, files, content, pathVars, progress, consulted, assSource,
                   created, unlinkFailed, result, totalSeconds, nData, encVars>>
    /\ UNCHANGED <<chunkVars, assVars, normVars, nameVars, updateVars>>

\* The denominator overwritten by every Duration: marker.
nextTotalSecondsLatest(total, chunk) ==
    IF chunk.duration # 0 THEN chunk.duration ELSE total

\* processor.cjs 54-57: totalSeconds after a chunk; only a null totalSeconds
\* is set, and only by a marker whose value is not 0.
nextTotalSeconds(total, chunk) ==
    IF total = 0 /\ chunk.duration # 0 THEN chunk.duration ELSE total

\* The percentage without the cap of the ratio at 1.
encodingPercentUncapped(current, total) == 40 + RoundDiv(55 * current, total)

\* processor.cjs 60-61: 40 + Math.round(Math.min(current / total, 1) * 55).
encodingPercent(current, total) == 40 + RoundDiv(55 * Min2(current, total), total)

\* processor.cjs 49-64: the stderr handler on one chunk; returns the new
\* totalSeconds and the events sent to onProgress.
onStderrData(total, chunk) ==
    LET newTotal == nextTotalSeconds(total, chunk)
        running  == IF chunk.blank THEN <<>> ELSE <<<<35, "FFmpeg running...">>>>
        encoded  == IF chunk.time # 0 /\ newTotal # 0
                    THEN <<<<encodingPercent(chunk.time, newTotal), "Encoding video...">>>>
                    ELSE <<>>
    IN  [totalSeconds |-> newTotal, events |-> running \o encoded]

\* A chunk of the encoder's stderr arrives: one of chunks, at most bound of
\* them per encoder.
FfmpegStderr(bound, chunks) ==
    /\ pc = "encode"
    /\ nData < bound
    /\ \E chunk \in chunks :
         LET r == onStderrData(totalSeconds, chunk)
         IN  /\ totalSeconds' = r.totalSeconds
             /\ progress' = progress \o r.events
             /\ ffmpegLog' = Append(ffmpegLog, chunk)
    /\ nData' = nData + 1
    /\ UNCHANGED <<pc, payload, files, content, pathVars, consulted, assSource, created,
                   unlinkFailed, result, encoderExit, encoderSpawns, filterChain>>
    /\ UNCHANGED <<chunkVars, assVars, normVars, nameVars, updateVars>>

\* processor.cjs 49-64 inside a whole run.
FfmpegData == FfmpegStderr(MaxDataChunks, PipelineChunks)

\* processor.cjs 49-64 with the encoder studied on its own.
EncoderData == FfmpegStderr(MaxEncoderChunks, FfmpegChunks)

\* The finally block without the WAV.
CleanupPathsNoWav == <<captionsPath, assPath, wtsPath, jsonPath>>

\* processor.cjs 573-577: the paths the finally block hands to safeDelete.
CleanupPaths == <<captionsPath, assPath, wtsPath, jsonPath, wavPath>>

\* processor.cjs 584-592: unlinkSync of an existing file; when it throws
\* (failing) the error is swallowed and the file stays.
safeDelete(fs, filePath, failing) ==
    IF filePath # NoPath /\ filePath \in fs /\ filePath \notin failing
    THEN fs \ {filePath}
    ELSE fs

\* The finally block given up at the first unlink that throws.
RECURSIVE DeleteAllStopOnFailure(_, _, _)
DeleteAllStopOnFailure(fs, paths, failing) ==
    IF paths = <<>> THEN fs
    ELSE IF Head(paths) \in failing THEN fs
    ELSE DeleteAllStopOnFailure(safeDelete(fs, Head(paths), failing), Tail(paths), failing)

\* processor.cjs 572-578: the five safeDelete calls, one after the other.
RECURSIVE DeleteAll(_, _, _)
DeleteAll(fs, paths, failing) ==
    IF paths = <<>> THEN fs
    ELSE DeleteAll(safeDelete(fs, Head(paths), failing), Tail(paths), failing)

\* processor.cjs 466-471: the artifacts processVideo holds a path to.
Tracked == {captionsPath, assPath, wtsPath, jsonPath, wavPath} \ {NoPath}

\* The unlinkSync calls that throw during one cleanup: none, or the one of a
\* single tracked file that exists.
UnlinkFailures == {{}} \cup {{f} : f \in Tracked \cap files}

\* How the encoder child ends: 'close' with code 0, 'close' with another
\* code, or 'error' because it could not be started.
EncoderExits == {"code0", "code1", "error"}

\* The run reported as a success however the encoder ended.
encodeResultIgnoringExit(exit) == Succeeded

\* processor.cjs 66-71 and 567-581: resolve on code 0, reject otherwise, and
\* the rejection rethrown as the FFmpeg failure.
encodeResult(exit) == IF exit = "code0" THEN Succeeded ELSE Failed("FFmpeg")

\* The closing event sent whether or not the encoder succeeded.
closingEventsAlways(res) == <<<<100, "Short created">>>>

\* processor.cjs 567-580: the event of line 580 is reached only when the
\* try block has not thrown.
closingEvents(res) ==
    IF res = Succeeded THEN <<<<100, "Short created">>>> ELSE <<>>

\* processor.cjs 66-71 and 567-581: the encoder closes.  With code 0 the
\* output is complete; otherwise (a non-zero code, or the process could not
\* be started) it may have been written in part.  The finally block runs in
\* both cases.
FfmpegClose ==
    /\ pc = "encode"
    /\ \E exit \in EncoderExits, partial \in BOOLEAN, failing \in UnlinkFailures :
         LET wrote == IF exit = "code0" \/ partial THEN {RunOut} ELSE {}
             fs    == files \cup wrote
         IN  /\ exit = "code0" => partial
             /\ exit = "error" => ~partial /\ ffmpegLog = <<>>
             /\ encoderExit' = exit
             /\ files' = DeleteAll(fs, CleanupPaths, failing)
             /\ unlinkFailed' = failing
             /\ created' = created \cup wrote
             /\ result' = encodeResult(exit)
             /\ progress' = progress \o closingEvents(encodeResult(exit))
    /\ pc' = "done"
    /\ UNCHANGED <<payload, content, pathVars, consulted, assSource, totalSeconds, nData,
                   ffmpegLog, encoderSpawns, filterChain>>
    /\ UNCHANGED <<chunkVars, assVars, normVars, nameVars, updateVars>>

Next ==
    \/ Start
    \/ EnsureBinary
    \/ EnsureModel
    \/ ConvertToWavClose
    \/ WhisperData
    \/ WhisperClose
    \/ SilenceClose
    \/ SilenceSpawnError
    \/ FfmpegData
    \/ FfmpegClose

Spec == Init /\ [][Next]_vars

(***************************************************************************)
(* SpecEncode: runs without captions, which go from the start straight to  *)
(* the encoder, with a longer stderr stream                                *)
(***************************************************************************)
InitEncode ==
    /\ Init
    /\ payload.hasInput /\ ~payload.burnCaptions
    /\ ~payload.wordLevelCaptions /\ ~payload.autoCaptionOffset

NextEncode ==
    \/ Start
    \/ EncoderData
    \/ FfmpegClose

SpecEncode == InitEncode /\ [][NextEncode]_vars

(***************************************************************************)
(* Properties of a run                                                     *)
(***************************************************************************)
RunFailed == pc = "done" /\ result.status = "error"

RunSucceeded == pc = "done" /\ result.status = "ok"

\* The temporary artifacts the run wrote: everything but the output file.
TempCreated == created \ {RunOut}

\* C1 as stated: when a run has failed, every temporary artifact it created
\* (WAV, SRT, WTS, JSON, ASS) has been deleted by the time the failure is
\* reported.
C1_AsStated == RunFailed => TempCreated \cap files = {}

\* C2 as stated: after a failed run no file exists at the run's output path.
C2_AsStated == RunFailed => RunOut \notin files

FallbackMessages ==
    Cardinality({i \in 1..Len(progress) :
                    progress[i][2] \in {MsgWtsMissing, MsgUsingSrt}})

\* The fallback steps taken: from a word-timing file that was tried and did
\* not build, and onto the line subtitles.
FallbackSteps ==
    (IF wtsPath # NoPath /\ assSource # "wts" THEN 1 ELSE 0)
    + (IF assSource = "srt" THEN 1 ELSE 0)

\* C7 as stated: with word-level captions requested, once transcription has
\* returned, no defect of the word-timing or token-data artifact makes the
\* run fail, and every fallback step taken has its progress message.
C7_AsStated ==
    (payload.burnCaptions /\ payload.wordLevelCaptions /\ captionsPath # NoPath
        /\ pc \in {"encode", "done"}) =>
        /\ result # Failed("BuildThrew")
        /\ assSource # "none" => FallbackMessages = FallbackSteps

SourceRank(f) ==
    IF f \in WtsNames THEN 1 ELSE IF f = RunJson THEN 2 ELSE 3

UsedRank == CASE assSource = "wts" -> 1 [] assSource = "json" -> 2 [] OTHER -> 3

WtsUsable == wtsPath # NoPath /\ content[wtsPath] = "words"

JsonUsable == jsonPath # NoPath /\ content[jsonPath] = "tokens"

\* C8: whenever a subtitle document has been built: with word-level captions
\* requested it was built from the first of word-timing file, token data,
\* line subtitles that yields timed units, and no source after that one was
\* read; without word-level captions it was built from the line subtitles
\* and nothing else was read.
C8_SourceOrder ==
    assSource # "none" =>
        /\ consulted # <<>>
        /\ SourceRank(consulted[Len(consulted)]) = UsedRank
        /\ \A i \in 1..Len(consulted) : SourceRank(consulted[i]) <= UsedRank
        /\ IF payload.wordLevelCaptions
           THEN /\ assSource = "wts" <=> WtsUsable
                /\ assSource = "json" <=> (~WtsUsable /\ JsonUsable)
                /\ assSource = "srt" <=> (~WtsUsable /\ ~JsonUsable)
           ELSE assSource = "srt" /\ consulted = <<captionsPath>>

\* C8 witness: a word-level run whose word-timing file yields nothing and
\* whose token data does: both were read, the line subtitles were not.
C8_Witness ==
    /\ payload.wordLevelCaptions
    /\ assSource = "json"
    /\ wtsPath # NoPath /\ ~WtsUsable
    /\ consulted = <<wtsPath, jsonPath>>
    /\ captionsPath # NoPath

SrtInDir == files \cap SrtNames

\* C9: after the Speech Engine exited with code 0, the run uses the SRT at
\* the expected path when it exists and otherwise the most recently modified
\* .srt of the captions directory; it fails for a missing SRT only when the
\* directory holds no .srt; and a run with captions never reaches the encode
\* stage without a line-subtitle path.
C9_SrtFallback ==
    /\ (payload.burnCaptions /\ pc \in {"silence", "encode"}) =>
            /\ captionsPath \in SrtInDir
            /\ RunSrt \in files => captionsPath = RunSrt
            /\ \A g \in SrtInDir : Mtime(g) <= Mtime(captionsPath)
    /\ result = Failed("MissingSrt") => SrtInDir = {}

\* C9 witness: the Speech Engine wrote no SRT, two older .srt files were in
\* the directory, and the run reached the encode stage with the newer one.
C9_Witness ==
    /\ pc = "encode"
    /\ payload.burnCaptions
    /\ RunSrt \notin files
    /\ StaleSrt \subseteq files
    /\ captionsPath = "captions/old2.srt"

(***************************************************************************)
(* Progress, the encoder's exit and the order of the stages                *)
(***************************************************************************)
\* C11: every progress event delivered to the sink during a run, whichever
\* stage sent it, carries a percent that is an integer of 0..100.
C11_PercentRange ==
    \A i \in 1..Len(progress) : progress[i][1] \in 0..100

HasEvent(pct, msg) == \E i \in 1..Len(progress) : progress[i] = <<pct, msg>>

\* C11 witness: a finished run whose sink received events of the binary
\* download, of the transcription, of a subtitle fallback, of the encoding
\* (at the cap) and the final one.
C11_Witness ==
    /\ pc = "done"
    /\ HasEvent(30, "Whisper: downloading binary...")
    /\ HasEvent(60, "Whisper: transcribing...")
    /\ HasEvent(35, MsgUsingSrt)
    /\ HasEvent(95, "Encoding video...")
    /\ HasEvent(100, "Short created")

\* The chunks of the encoder's stream that carry a Duration: marker.
DurationMarkers == {i \in 1..Len(ffmpegLog) : ffmpegLog[i].duration # 0}

FirstDurationMarker ==
    IF DurationMarkers = {} THEN 0
    ELSE CHOOSE i \in DurationMarkers : \A j \in DurationMarkers : i <= j

\* The denominator the first duration marker gives, 0 while there is none.
Denominator ==
    IF FirstDurationMarker = 0 THEN 0 ELSE ffmpegLog[FirstDurationMarker].duration

IsEncodingEvent(e) == e[2] = "Encoding video..."

\* The percentages of the current-time events delivered so far, in order.
EncodingPercents ==
    LET ev == SelectSeq(progress, IsEncodingEvent)
    IN  [i \in 1..Len(ev) |-> ev[i][1]]

\* The percentages the stream log[from..] calls for: one per current-time
\* marker that comes with or after the first duration marker.
RECURSIVE ExpectedPercents(_)
ExpectedPercents(from) ==
    IF from > Len(ffmpegLog) THEN <<>>
    ELSE (IF ffmpegLog[from].time # 0 /\ FirstDurationMarker # 0
             /\ from >= FirstDurationMarker
          THEN <<40 + RoundDiv(55 * Min2(ffmpegLog[from].time, Denominator),
                               Denominator)>>
          ELSE <<>>)
         \o ExpectedPercents(from + 1)

C13_ExitDecides ==
    (pc = "done" /\ encoderSpawns > 0) =>
        /\ encoderExit # "none"
        /\ result = Succeeded <=> encoderExit = "code0"
        /\ result = Succeeded => result.outputPath = RunOut
        /\ encoderExit \in {"code1", "error"} => result = Failed("FFmpeg")

\* C13 witness: a run with captions whose encoder could not be started.
C13_Witness ==
    /\ pc = "done"
    /\ payload.burnCaptions
    /\ encoderSpawns = 1
    /\ encoderExit = "error"
    /\ result = Failed("FFmpeg")

StageRank(stage) ==
    CASE stage = "start" -> 0
      [] stage = "binary" -> 1
      [] stage = "model" -> 2
      [] stage = "wav" -> 3
      [] stage = "whisper" -> 4
      [] stage = "silence" -> 5
      [] stage = "encode" -> 6
      [] OTHER -> 7

EarlyFailures == {"NoInput", "Provision", "Wav", "WhisperExit", "MissingSrt", "BuildThrew"}

C14_Spawned ==
    /\ encoderSpawns <= 1
    /\ encoderSpawns = 1 <=> (pc = "encode" \/ encoderExit # "none")
    /\ (encoderSpawns = 1 /\ payload.burnCaptions) =>
            /\ captionsPath # NoPath
            /\ assSource # "none"
            /\ assPath = RunAss
            /\ RunAss \in created
            /\ pc = "encode" => RunAss \in files
    /\ result.error \in EarlyFailures => encoderSpawns = 0

\* C14: the stages of a run only move forward; the encoding command is
\* spawned at most once, with captions only after the transcription returned
\* its subtitle path and the subtitle document was written, and never in a
\* run whose transcription or subtitle building failed.
C14_StageOrder ==
    /\ []C14_Spawned
    /\ [][StageRank(pc') > StageRank(pc) \/ UNCHANGED pc]_vars

\* C14 witness: a run with captions at the encode stage, its encoder spawned
\* once, the subtitle document and the WAV on disk.
C14_Witness ==
    /\ pc = "encode"
    /\ payload.burnCaptions
    /\ encoderSpawns = 1
    /\ {RunAss, RunWav} \subseteq files
    /\ nData = 1

(***************************************************************************)
(* Properties of the subtitle builders: slices, speed, window              *)
(***************************************************************************)
SelStart == bSelection.start

SelEnd == bSelection.start + bSelection.duration

Speed == OrDefault(bSettings.captionSpeed, DefaultCaptionSpeed)

\* The time an SRT timestamp denotes, in ms.
StampMs(stamp) == ((stamp[1] * 60 + stamp[2]) * 60 + stamp[3]) * 1000 + stamp[4]

UnitStartMs(u) == IF bKind = "srt" THEN StampMs(u.start) ELSE u.start

UnitEndMs(u) == IF bKind = "srt" THEN StampMs(u.end) ELSE u.end

\* A time clipped to the window.
Clip(t) == Min2(Max2(t, SelStart), SelEnd)

\* Steps 3-6 of the remapping at the resolution of the document: the
\* window-relative time times 100 / speed plus the offset, not below 0, in
\* whole centiseconds.
RemappedCs(t) == Max2((t - SelStart) * 100 + bOffset * Speed, 0) \div (Speed * 10)

\* The chunks the chunker makes of the only block of the input.
BlockChunks ==
    splitCaptionText(Trim(bUnits[1].text),
                     OrDefault(bSettings.captionMaxWords, DefaultCaptionMaxWords),
                     OrDefault(bSettings.captionMaxChars, DefaultCaptionMaxChars))

EventWidthCs(i) == EventEndCs(i) - EventStartCs(i)

\* C18 as stated: a block that the chunker splits into N > 1 chunks yields
\* exactly N events, in chunk order, each ending where the next begins, of
\* equal width (to the centisecond the timestamps are floored to), the first
\* beginning at the block's remapped start and the last ending at the
\* block's remapped end.
C18_AsStated ==
    (bpc = "built" /\ bKind = "srt" /\ Len(bUnits) = 1 /\ bEvents # <<>>
        /\ Len(BlockChunks) > 1) =>
        LET N == Len(BlockChunks)
        IN  /\ Len(bEvents) = N
            /\ \A i \in 1..N : bEvents[i].text = BlockChunks[i]
            /\ \A i \in 1..(N - 1) : EventEndCs(i) = EventStartCs(i + 1)
            /\ \A i, j \in 1..N : EventWidthCs(i) - EventWidthCs(j) \in {-1, 0, 1}
            /\ EventStartCs(1) = RemappedCs(Clip(UnitStartMs(bUnits[1])))
            /\ EventEndCs(N) = RemappedCs(Clip(UnitEndMs(bUnits[1])))

\* A unit of positive length that lies inside the window.
Inside(u) ==
    /\ SelStart <= UnitStartMs(u)
    /\ UnitStartMs(u) < UnitEndMs(u)
    /\ UnitEndMs(u) <= SelEnd

\* The length of a unit's clipped span after speed scaling, times Speed, ms.
ScaledSpan(u) == (Clip(UnitEndMs(u)) - Clip(UnitStartMs(u))) * 100

\* The floor under which the builder stretches the span of a unit: the
\* minimum word duration for a word, the 0.1 s of a block cut into slices.
SpanFloorMs ==
    IF bKind = "words" THEN MinWordMs
    ELSE IF Len(BlockChunks) > 1 THEN MinBlockTotalMs ELSE 0

\* C19: with offset 0, for one unit inside the window, the event (or the run
\* of slices) begins at the window-relative start times 100 / captionSpeed
\* and, when the scaled span is not below the floor, ends at the
\* window-relative end times 100 / captionSpeed, so that captionSpeed = 200
\* halves both.
C19_SpeedScaling ==
    (bpc = "built" /\ bOffset = 0 /\ Len(bUnits) = 1 /\ Inside(bUnits[1])) =>
        LET u == bUnits[1]
            n == Len(bEvents)
        IN  /\ n >= 1
            /\ EventStartCs(1) * Speed * 10 <= (UnitStartMs(u) - SelStart) * 100
            /\ (UnitStartMs(u) - SelStart) * 100 < (EventStartCs(1) + 1) * Speed * 10
            /\ ScaledSpan(u) >= SpanFloorMs * Speed =>
                /\ EventEndCs(n) * Speed * 10 <= (UnitEndMs(u) - SelStart) * 100
                /\ (UnitEndMs(u) - SelStart) * 100 < (EventEndCs(n) + 1) * Speed * 10

\* C19 witness: a word from 0.4 s to 1.0 s of the window, captionSpeed 200,
\* offset 0: the event runs from 0.20 to 0.50.
C19_Witness ==
    /\ bpc = "built" /\ bKind = "words" /\ bOffset = 0
    /\ bSettings.captionSpeed = 200
    /\ bSelection.start = 0
    /\ Len(bUnits) = 1 /\ bUnits[1].start = 400 /\ bUnits[1].end = 1000
    /\ Len(bEvents) = 1
    /\ bEvents[1].start = <<0, 0, 0, 20>> /\ bEvents[1].end = <<0, 0, 0, 50>>

\* A unit that lies fully outside [start, start + duration).
Outside(u) == UnitEndMs(u) <= SelStart \/ UnitStartMs(u) >= SelEnd

KeptUnits == {i \in 1..Len(bUnits) : ~Outside(bUnits[i])}

\* C20: units fully outside the window produce no event; with offset 0 a
\* single unit that straddles the window start yields events that begin at
\* 0.00, and one that straddles the window end yields events that end at the
\* remapped window end (when the clipped span is not below the floor).
C20_WindowClipping ==
    bpc = "built" =>
        /\ KeptUnits = {} => bEvents = <<>>
        /\ bKind = "words" => Len(bEvents) = Cardinality(KeptUnits)
        /\ (Len(bUnits) = 1 /\ bOffset = 0 /\ ~Outside(bUnits[1])
                /\ UnitStartMs(bUnits[1]) < UnitEndMs(bUnits[1])) =>
            LET u == bUnits[1]
                n == Len(bEvents)
            IN  /\ n >= 1
                /\ EventStartCs(1) = RemappedCs(Clip(UnitStartMs(u)))
                /\ UnitStartMs(u) <= SelStart => EventStartCs(1) = 0
                /\ ScaledSpan(u) >= SpanFloorMs * Speed =>
                        EventEndCs(n) = RemappedCs(Clip(UnitEndMs(u)))

\* C20 witness: window {0.4, 1.0}, a block from 0.03 to 1.0 s, offset 0:
\* the event begins at 0.00; a second unit before the window left no event.
C20_Witness ==
    /\ bpc = "built" /\ bKind = "srt" /\ bOffset = 0
    /\ bSelection.start = 400
    /\ Len(bUnits) = 2
    /\ StampMs(bUnits[1].start) = 0 /\ StampMs(bUnits[1].end) = 30
    /\ StampMs(bUnits[2].start) = 30 /\ StampMs(bUnits[2].end) = 1000
    /\ Len(bEvents) = 1
    /\ bEvents[1].start = <<0, 0, 0, 0>>

(***************************************************************************)
(* Transcript normalisation (processor.cjs 170-229, 417-421) and style     *)
(* lookup (233-276, 333-376)                                               *)
(*                                                                         *)
(* Here a text is a sequence of characters out of Chars: an opening brace, *)
(* a closing brace, an ordinary character, a space, and U+2028 LINE        *)
(* SEPARATOR, which is whitespace to trim() and \s, is not matched by "."  *)
(* in a regular expression without the s flag, and does not end a line of  *)
(* the files.  A time a parser returns is carried in thousandths: the raw  *)
(* value v unchanged is v * 1000, the raw value times 0.001 is v.          *)
(***************************************************************************)
Chars == {"{", "}", "a", " ", "LS"}

IsSpace(c) == c \in {" ", "LS"}

RECURSIVE trimStartChars(_)
trimStartChars(s) ==
    IF s = <<>> THEN <<>>
    ELSE IF IsSpace(Head(s)) THEN trimStartChars(Tail(s)) ELSE s

RECURSIVE trimEndChars(_)
trimEndChars(s) ==
    IF s = <<>> THEN <<>>
    ELSE IF IsSpace(s[Len(s)]) THEN trimEndChars(SubSeq(s, 1, Len(s) - 1)) ELSE s

\* String.prototype.trim
trimChars(s) == trimEndChars(trimStartChars(s))

\* With s[1] an opening brace, where the shortest match of \{.*?\} ends:
\* the first closing brace from k on that no line terminator precedes, 0 when
\* there is none.
RECURSIVE MatchEnd(_, _)
MatchEnd(s, k) ==
    IF k > Len(s) THEN 0
    ELSE IF s[k] = "}" THEN k
    ELSE IF s[k] = "LS" THEN 0
    ELSE MatchEnd(s, k + 1)

\* text.replace(/\{.*?\}/g, ""): every match removed, left to right.
RECURSIVE stripOverrides(_)
stripOverrides(s) ==
    IF s = <<>> THEN <<>>
    ELSE IF Head(s) = "{" /\ MatchEnd(s, 2) # 0
         THEN stripOverrides(SubSeq(s, MatchEnd(s, 2) + 1, Len(s)))
         ELSE <<Head(s)>> \o stripOverrides(Tail(s))

\* maxEnd > 1000 ? 0.001 : 1
ScaleThreshold == 1000

\* The scale chosen from 1000 on.
scaleDivisorInclusive(maxEnd) == IF maxEnd >= ScaleThreshold THEN 1000 ELSE 1

\* processor.cjs 187 and 223: the scale is 1 / scaleDivisor.
scaleDivisor(maxEnd) == IF maxEnd > ScaleThreshold THEN 1000 ELSE 1

RECURSIVE MaxEndOf(_)
MaxEndOf(words) ==
    IF Len(words) = 1 THEN words[1].end
    ELSE Max2(words[1].end, MaxEndOf(Tail(words)))

\* w.start * scale, w.end * scale, in thousandths.
scaleWords(words) ==
    LET divisor == scaleDivisor(MaxEndOf(words))
    IN  [i \in 1..Len(words) |->
            [start |-> words[i].start * (1000 \div divisor),
             end   |-> words[i].end * (1000 \div divisor),
             text  |-> words[i].text]]

\* processor.cjs 172-175: the trimmed line matches
\* ^(\d+(?:\.\d+)?)\s+(\d+(?:\.\d+)?)\s+(.*)$ when something that holds no
\* line terminator is left after the two numbers.
WtsLineMatches(line) ==
    LET rest == trimChars(line.text)
    IN  rest # <<>> /\ \A i \in 1..Len(rest) : rest[i] # "LS"

RECURSIVE WtsWords(_)
WtsWords(lines) ==
    IF lines = <<>> THEN <<>>
    ELSE (IF WtsLineMatches(Head(lines))
          THEN <<[start |-> Head(lines).start, end |-> Head(lines).end,
                  text  |-> trimChars(Head(lines).text)]>>
          ELSE <<>>)
         \o WtsWords(Tail(lines))

\* processor.cjs 170-194 on the lines "<start> <end> <text>" of the file.
parseWtsFile(lines) ==
    LET words == WtsWords(lines)
    IN  IF words = <<>> THEN <<>>
        ELSE LET scaled == scaleWords(words)
             IN  [i \in 1..Len(scaled) |->
                    [scaled[i] EXCEPT !.text = stripOverrides(scaled[i].text)]]

\* processor.cjs 204-218: a token whose trimmed text is empty is skipped (the
\* marker and punctuation tokens of 211-212 have no character here).
RECURSIVE JsonWords(_)
JsonWords(tokens) ==
    IF tokens = <<>> THEN <<>>
    ELSE (IF trimChars(Head(tokens).text) # <<>>
          THEN <<[start |-> Head(tokens).start, end |-> Head(tokens).end,
                  text  |-> stripOverrides(trimChars(Head(tokens).text))]>>
          ELSE <<>>)
         \o JsonWords(Tail(tokens))

\* processor.cjs 196-229 on the tokens {offsets: {from, to}, text}.
parseWhisperJson(tokens) ==
    LET words == JsonWords(tokens)
    IN  IF words = <<>> THEN <<>> ELSE scaleWords(words)

RECURSIVE JoinLines(_)
JoinLines(lines) ==
    IF lines = <<>> THEN <<>>
    ELSE IF Len(lines) = 1 THEN Head(lines)
    ELSE Head(lines) \o <<" ">> \o JoinLines(Tail(lines))

\* processor.cjs 417-431: the text of a block from its text lines, and the
\* dialogue texts written for it (a text this short is a single chunk).
blockDialogueTexts(textLines) ==
    LET text == trimChars(stripOverrides(JoinLines(textLines)))
    IN  IF text = <<>> THEN <<>> ELSE <<text>>

DefaultCaptionSize == 48

PunchySizeBonus == 4

\* processor.cjs 237-274: the styles object.
styles(fontSize) ==
    [name \in {"clean", "neon", "boxed", "punchy"} |->
        CASE name = "clean" ->
                [font |-> "Segoe UI Semibold", size |-> fontSize,
                 primary |-> "&H00FFFFFF", outline |-> "&H00111111",
                 shadow |-> 1, borderStyle |-> 1, outlineSize |-> 3]
          [] name = "neon" ->
                [font |-> "Space Grotesk", size |-> fontSize,
                 primary |-> "&H00E8FFF5", outline |-> "&H0031C9A9",
                 shadow |-> 2, borderStyle |-> 1, outlineSize |-> 4]
          [] name = "boxed" ->
                [font |-> "IBM Plex Sans", size |-> fontSize,
                 primary |-> "&H00FFFFFF", outline |-> "&H00111111",
                 shadow |-> 0, borderStyle |-> 3, outlineSize |-> 3]
          [] name = "punchy" ->
                [font |-> "Impact", size |-> fontSize + PunchySizeBonus,
                 primary |-> "&H00FFFFFF", outline |-> "&H00000000",
                 shadow |-> 2, borderStyle |-> 1, outlineSize |-> 4]]

\* Names every object literal answers to through Object.prototype; the
\* value found is an object or a function, which is truthy and has none of
\* the fields of a style.
InheritedKeys == {"constructor", "toString", "__proto__"}

\* What the Style: line shows of a value without the fields of a style.
NoStyleFields ==
    [font |-> "undefined", size |-> "undefined", primary |-> "undefined",
     outline |-> "undefined", shadow |-> "undefined", borderStyle |-> "undefined",
     outlineSize |-> "undefined"]

\* processor.cjs 233-234 and 276 (333-334 and 376 in buildAssFromSrt, the same
\* text): styles[style] || styles.clean.
chosenStyle(settings) ==
    LET style    == IF settings.captionStyle = "" THEN "clean" ELSE settings.captionStyle
        fontSize == OrDefault(settings.captionSize, DefaultCaptionSize)
    IN  IF style \in DOMAIN styles(fontSize) THEN styles(fontSize)[style]
        ELSE IF style \in InheritedKeys THEN NoStyleFields
        ELSE styles(fontSize)["clean"]

(***************************************************************************)
(* SpecNorm: the parsers, the block text and the style lookup on bounded   *)
(* inputs                                                                  *)
(***************************************************************************)
MaxParsed == 2

MaxRawChars == 4

\* Raw times as the Speech Engine writes them: seconds or milliseconds.
RawTimes == {0, 400, 1000, 1001, 2500}

RawTexts == SeqsUpTo(Chars, MaxRawChars)

\* Units that differ in their times.
TimedInputs ==
    SeqsUpTo([start : RawTimes, end : RawTimes, text : {<<"a">>}], MaxParsed)

\* One unit, of any text.
TextInputs == {<<[start |-> 0, end |-> 1, text |-> t]>> : t \in RawTexts}

\* The text lines of a block: one line, or two short ones.
LineInputs ==
    {<<t>> : t \in RawTexts \ {<<>>}}
    \cup {<<t1, t2>> : t1, t2 \in SeqsUpTo(Chars, 2) \ {<<>>}}

\* captionStyle ("" for absent) and captionSize (0 for absent).
StyleInputs ==
    [captionStyle : {"", "clean", "neon", "boxed", "punchy", "karaoke",
                     "constructor", "__proto__"},
     captionSize  : {0, 48, 60}]

InitNorm ==
    /\ fpc = "input"
    /\ fKind \in {"wts", "json", "srt", "style"}
    /\ fInput \in (CASE fKind = "srt" -> LineInputs
                     [] fKind = "style" -> StyleInputs
                     [] OTHER -> TimedInputs \cup TextInputs)
    /\ fOutput = <<>>
    /\ ChunkIdle /\ AssIdle /\ RunIdle
    /\ NameIdle /\ UpdateIdle

ParseWts ==
    /\ fpc = "input" /\ fKind = "wts"
    /\ fOutput' = parseWtsFile(fInput)
    /\ fpc' = "done"
    /\ UNCHANGED <<fKind, fInput>>
    /\ UNCHANGED <<chunkVars, assVars, runVars, nameVars, updateVars>>

ParseJson ==
    /\ fpc = "input" /\ fKind = "json"
    /\ fOutput' = parseWhisperJson(fInput)
    /\ fpc' = "done"
    /\ UNCHANGED <<fKind, fInput>>
    /\ UNCHANGED <<chunkVars, assVars, runVars, nameVars, updateVars>>

ReadBlockText ==
    /\ fpc = "input" /\ fKind = "srt"
    /\ fOutput' = blockDialogueTexts(fInput)
    /\ fpc' = "done"
    /\ UNCHANGED <<fKind, fInput>>
    /\ UNCHANGED <<chunkVars, assVars, runVars, nameVars, updateVars>>

ChooseStyle ==
    /\ fpc = "input" /\ fKind = "style"
    /\ fOutput' = chosenStyle(fInput)
    /\ fpc' = "done"
    /\ UNCHANGED <<fKind, fInput>>
    /\ UNCHANGED <<chunkVars, assVars, runVars, nameVars, updateVars>>

NextNorm == ParseWts \/ ParseJson \/ ReadBlockText \/ ChooseStyle

SpecNorm == InitNorm /\ [][NextNorm]_vars

\* The raw times and the returned times of the units, starts and ends alike.
RawTimesOf == [i \in 1..(2 * Len(fInput)) |->
                 IF i <= Len(fInput) THEN fInput[i].start
                 ELSE fInput[i - Len(fInput)].end]

ParsedTimesOf == [i \in 1..(2 * Len(fOutput)) |->
                    IF i <= Len(fOutput) THEN fOutput[i].start
                    ELSE fOutput[i - Len(fOutput)].end]

\* C15: for parsed units (word-timing lines and token data alike): when
\* the greatest end is <= 1000 every start and end is returned unchanged,
\* when it is > 1000 every start and end is returned times 0.001, and either
\* way the order of the times is kept.
C15_TimestampScale ==
    (fpc = "done" /\ fKind \in {"wts", "json"} /\ fInput # <<>>
        /\ Len(fOutput) = Len(fInput)) =>
        /\ MaxEndOf(fInput) <= 1000 =>
                \A i \in 1..Len(RawTimesOf) : ParsedTimesOf[i] = RawTimesOf[i] * 1000
        /\ MaxEndOf(fInput) > 1000 =>
                \A i \in 1..Len(RawTimesOf) : ParsedTimesOf[i] = RawTimesOf[i]
        /\ \A i, j \in 1..Len(RawTimesOf) :
                RawTimesOf[i] <= RawTimesOf[j] <=> ParsedTimesOf[i] <= ParsedTimesOf[j]

\* C15 witness: token data of two units whose ends are 1000 and 1001: both
\* are scaled, 400 to 0.4.
C15_Witness ==
    /\ fpc = "done" /\ fKind = "json"
    /\ Len(fInput) = 2 /\ Len(fOutput) = 2
    /\ fInput[1].start = 400 /\ fInput[1].end = 1000 /\ fInput[2].end = 1001
    /\ fOutput[1].start = 400 /\ fOutput[1].end = 1000 /\ fOutput[2].end = 1001

\* C16 as stated: a style name other than clean, neon, boxed, punchy, or an
\* absent one, gives the clean profile.
C16_AsStated ==
    (fpc = "done" /\ fKind = "style"
        /\ fInput.captionStyle \notin {"clean", "neon", "boxed", "punchy"}) =>
        fOutput = [font |-> "Segoe UI Semibold",
                   size |-> OrDefault(fInput.captionSize, DefaultCaptionSize),
                   primary |-> "&H00FFFFFF", outline |-> "&H00111111",
                   shadow |-> 1, borderStyle |-> 1, outlineSize |-> 3]

\* The texts of the dialogue lines the parsed input leads to: a word's text
\* is written as it is (processor.cjs 313-315).
DialogueTexts ==
    IF fKind = "srt" THEN fOutput
    ELSE [i \in 1..Len(fOutput) |-> fOutput[i].text]

HasOverride(t) ==
    \E i, j \in 1..Len(t) : i < j /\ t[i] = "{" /\ t[j] = "}"

\* C17 as stated: whatever the transcript text, no dialogue text holds an
\* opening brace followed later by a closing brace, in the three paths.
C17_AsStated ==
    (fpc = "done" /\ fKind \in {"wts", "json", "srt"}) =>
        \A i \in 1..Len(DialogueTexts) : ~HasOverride(DialogueTexts[i])


(***************************************************************************)
(* Properties of the word builder on a window that holds every word        *)
(***************************************************************************)
\* The window contains every unit, the offset is 0 and the speed is 100%.
IdentityRemap ==
    /\ bpc = "built" /\ bKind = "words"
    /\ bOffset = 0 /\ Speed = 100
    /\ \A i \in 1..Len(bUnits) :
        SelStart <= bUnits[i].start /\ bUnits[i].end <= SelEnd

\* The units whose duration is at least the minimum duration.
LongUnits == {i \in 1..Len(bUnits) : bUnits[i].end - bUnits[i].start >= MinWordMs}

\* The position, among the events, of the event of kept unit i.
EventOf(i) == Cardinality({j \in KeptUnits : j <= i})

C22_DeleteFailureHarmless ==
    (pc = "done" /\ unlinkFailed # {}) =>
        /\ encoderExit = "code0" => result = Succeeded
        /\ encoderExit # "code0" => result = Failed("FFmpeg")
        /\ \A f \in Tracked \ unlinkFailed : f \notin files

\* C22 witness: the line subtitles, first of the five paths, could not be
\* unlinked; the document and the WAV behind them are gone and the run
\* returns the output path.
C22_Witness ==
    /\ pc = "done" /\ unlinkFailed = {RunSrt}
    /\ captionsPath = RunSrt /\ RunSrt \in files
    /\ {RunAss, RunWav} \subseteq created
    /\ {RunAss, RunWav} \cap files = {}
    /\ result = Succeeded

\* main.cjs 73-83: what the pipeline:process handler makes of the way
\* processVideo settled: the value it returns to the caller and the
\* pipeline:error events it sends.  While processVideo is pending the handler
\* has returned nothing.
pipelineProcess(res) ==
    IF res = Pending
    THEN [replied |-> FALSE, reply |-> <<>>, errorEvents |-> <<>>]
    ELSE IF res.status = "ok"
    THEN [replied |-> TRUE, reply |-> [outputPath |-> res.outputPath],
          errorEvents |-> <<>>]
    ELSE [replied |-> TRUE, reply |-> [error |-> res.error],
          errorEvents |-> <<[message |-> res.error]>>]

\* The run is at a stage whose completion is still to come.
Waiting == pc \in {"start", "binary", "model", "wav", "whisper", "silence", "encode"}

\* C23 as stated: every invocation of the pipeline:process handler ends with
\* a reply that is either {outputPath} or {error}; a failure is one message,
\* sent as one pipeline:error event and returned as {error: message}; a
\* success sends no pipeline:error event.
C23_AsStated ==
    (pc # "idle" /\ ~Waiting) =>
        LET h == pipelineProcess(result)
        IN  /\ h.replied
            /\ DOMAIN h.reply \in {{"outputPath"}, {"error"}}
            /\ DOMAIN h.reply = {"error"} =>
                /\ Len(h.errorEvents) = 1
                /\ h.errorEvents[1].message = h.reply.error
            /\ DOMAIN h.reply = {"outputPath"} => h.errorEvents = <<>>

(***************************************************************************)
(* Properties of runs with and without captions                            *)
(***************************************************************************)
\* The stages of the Transcription Driver and of the subtitle building.
CaptionStages == {"binary", "model", "wav", "whisper", "silence", "stuck"}

TranscriptionFailures == {"Provision", "Wav", "WhisperExit", "MissingSrt", "BuildThrew"}

EncoderSpawned == encoderSpawns > 0

\* C24: without captions the run is never in a stage of the Transcription
\* Driver, never ends with a transcription or missing-artifact failure,
\* writes no file but the output, and hands the encoder the chain scale,
\* crop; with captions the chain handed to the encoder is scale, crop and
\* one subtitle stage, last, naming the subtitle document the run built.
C24_FilterChain ==
    /\ (pc # "idle" /\ ~payload.burnCaptions) =>
        /\ pc \notin CaptionStages
        /\ result.error \notin TranscriptionFailures
        /\ created \subseteq {RunOut}
        /\ Tracked = {}
        /\ progress # <<>> => \A i \in 1..Len(progress) :
                progress[i][2] \in {"Analyzing audio + reactions...", "Preparing FFmpeg...",
                                    "FFmpeg running...", "Encoding video...", "Short created"}
        /\ EncoderSpawned => filterChain = <<ScaleStage, CropStage>>
    /\ (pc # "idle" /\ payload.burnCaptions /\ EncoderSpawned) =>
        /\ Len(filterChain) = 3
        /\ SubSeq(filterChain, 1, 2) = <<ScaleStage, CropStage>>
        /\ filterChain[3].filter = "subtitles"
        /\ filterChain[3].arg = assPath
        /\ assPath \in created

\* C24 witness: a run without captions has encoded with the chain scale,
\* crop and has written the output file alone.
C24_Witness ==
    /\ pc = "done" /\ ~payload.burnCaptions
    /\ result = Succeeded
    /\ filterChain = <<ScaleStage, CropStage>>
    /\ created = {RunOut}
    /\ Len(progress) >= 4

\* The transcript files the subtitle builders read.
ConsultedFiles == {consulted[i] : i \in 1..Len(consulted)}

\* C25 as stated: every transcript file the run reads to build its captions
\* and every file the run holds a path to, and so deletes during cleanup,
\* was written by the run's own processes; no file found in the captions
\* directory from before is adopted.
C25_AsStated ==
    pc # "idle" =>
        /\ ConsultedFiles \subseteq created
        /\ Tracked \subseteq created

(***************************************************************************)
(* SpecNames: the artifact paths of two runs on sources of one directory   *)
(* (processor.cjs 456-464, 319, 445; main.cjs 503, 568, 581-583)           *)
(*                                                                         *)
(* A path is [dir, base, stamp, ext]: the folder under ai-short-maker, the *)
(* fixed or source-derived part of the file name, the Date.now() value in  *)
(* the name (-1 when the name holds none) and the extension.               *)
(***************************************************************************)
MaxClock == 2

\* path.parse(inputPath).name of the sources offered, all in one directory.
NameSources == {"clip", "talk"}

NameRuns == {1, 2}

\* processor.cjs 464
OutputPathOf(now) == [dir |-> "output", base |-> "short", stamp |-> now, ext |-> "mp4"]

\* main.cjs 503: <audioDir>/<name of the source>.wav
WavPathOf(source) == [dir |-> "audio", base |-> source, stamp |-> -1, ext |-> "wav"]

\* main.cjs 568 and 581-583: captions-<now>.srt, .wts and .json
TranscriptPathsOf(base) ==
    {[dir |-> "captions", base |-> "captions", stamp |-> base, ext |-> e] :
        e \in {"srt", "wts", "json"}}

\* processor.cjs 319 and 445: captions-<now>.ass
AssPathOf(now) == [dir |-> "captions", base |-> "captions", stamp |-> now, ext |-> "ass"]

InitNames ==
    /\ nNow = 0
    /\ nRuns \in [NameRuns -> {[stage |-> "new", source |-> src, startedAt |-> -1,
                                base |-> -1, paths |-> {}] : src \in NameSources}]
    /\ RunIdle /\ ChunkIdle /\ AssIdle /\ NormIdle /\ UpdateIdle

\* The clock advances by a millisecond.
NameTick ==
    /\ nNow < MaxClock
    /\ nNow' = nNow + 1
    /\ UNCHANGED nRuns
    /\ UNCHANGED <<runVars, chunkVars, assVars, normVars, updateVars>>

\* processor.cjs 450-464: a run starts and names its output file.
NameStart(r) ==
    /\ nRuns[r].stage = "new"
    /\ nRuns' = [nRuns EXCEPT ![r].stage = "started",
                              ![r].startedAt = nNow,
                              ![r].paths = @ \cup {OutputPathOf(nNow)}]
    /\ UNCHANGED nNow
    /\ UNCHANGED <<runVars, chunkVars, assVars, normVars, updateVars>>

\* main.cjs 498-526 and 567-568: the conversion has written the WAV and the
\* base name of the transcripts is taken from the clock.
NameConvert(r) ==
    /\ nRuns[r].stage = "started"
    /\ nRuns' = [nRuns EXCEPT ![r].stage = "converted",
                              ![r].base = nNow,
                              ![r].paths = @ \cup {WavPathOf(nRuns[r].source)}]
    /\ UNCHANGED nNow
    /\ UNCHANGED <<runVars, chunkVars, assVars, normVars, updateVars>>

\* main.cjs 569-583: the Speech Engine has written its files under the base
\* name.
NameTranscribe(r) ==
    /\ nRuns[r].stage = "converted"
    /\ nRuns' = [nRuns EXCEPT ![r].stage = "transcribed",
                              ![r].paths = @ \cup TranscriptPathsOf(nRuns[r].base)]
    /\ UNCHANGED nNow
    /\ UNCHANGED <<runVars, chunkVars, assVars, normVars, updateVars>>

\* processor.cjs 319 and 445: a builder names the subtitle document.
NameBuild(r) ==
    /\ nRuns[r].stage = "transcribed"
    /\ nRuns' = [nRuns EXCEPT ![r].stage = "built",
                              ![r].paths = @ \cup {AssPathOf(nNow)}]
    /\ UNCHANGED nNow
    /\ UNCHANGED <<runVars, chunkVars, assVars, normVars, updateVars>>

NextNames ==
    \/ NameTick
    \/ \E r \in NameRuns : NameStart(r)
    \/ \E r \in NameRuns : NameConvert(r)
    \/ \E r \in NameRuns : NameTranscribe(r)
    \/ \E r \in NameRuns : NameBuild(r)

SpecNames == InitNames /\ [][NextNames]_vars

\* C26 as stated: two runs that started at different millisecond timestamps
\* use disjoint sets of artifact paths (WAV, SRT/WTS/JSON, ASS, output),
\* also when they process the same source.
C26_AsStated ==
    (nRuns # <<>> /\ nRuns[1].stage # "new" /\ nRuns[2].stage # "new"
        /\ nRuns[1].startedAt # nRuns[2].startedAt) =>
        nRuns[1].paths \cap nRuns[2].paths = {}

(***************************************************************************)
(* Properties of the progress events of a run                              *)
(***************************************************************************)
\* C27 as stated: the percent values delivered to the progress sink within
\* one run never decrease, from provisioning to encoding.
C27_AsStated ==
    \A i \in 1..(Len(progress) - 1) : progress[i][1] <= progress[i + 1][1]

\* The positions of the progress events with percent 100.
Hundreds == {i \in 1..Len(progress) : progress[i][1] = 100}

\* C28: a successful run has delivered exactly one event with percent 100,
\* and it is the last event of the run; a run that has not succeeded (it is
\* still under way, or it has failed) has delivered none.
C28_Completion ==
    pc # "idle" =>
        /\ RunSucceeded => Hundreds = {Len(progress)} /\ progress # <<>>
        /\ ~RunSucceeded => Hundreds = {}

\* C28 witness: a successful run whose encoder reported 95% and whose last
\* event, and only that one, is 100.
C28_Witness ==
    /\ RunSucceeded
    /\ Len(progress) >= 2
    /\ progress[Len(progress)] = <<100, "Short created">>
    /\ progress[Len(progress) - 1] = <<95, "Encoding video...">>
    /\ Hundreds = {Len(progress)}

(***************************************************************************)
(* Property of the chunker: no empty chunk                                 *)
(***************************************************************************)
\* C29 as stated: for any text and any positive maxWords and maxChars, every
\* chunk returned by splitCaptionText holds at least one word.
C29_AsStated ==
    (cpc = "done" /\ cMaxWords > 0 /\ cMaxChars > 0) =>
        \A i \in 1..Len(cChunks) : ChunkWordCount(cChunks[i]) >= 1

(***************************************************************************)
(* SpecUpdate: the update handlers over update-state.json (main.cjs 33-60, *)
(* 90-140)                                                                 *)
(*                                                                         *)
(* The parsed file is [channel, remindUntil]; a field the file does not    *)
(* hold is "absent" for the channel and 0 for remindUntil, which is how    *)
(* the readers treat it (lines 53 and 59).  A file that is missing or      *)
(* unreadable parses as {}: both fields absent.                            *)
(***************************************************************************)
MaxCalls == 4

\* 24 * 60 * 60 * 1000 ms
RemindDelayMs == 86400000

\* The channel arguments tried: the two channels and an unknown one.
ChannelArgs == {"beta", "stable", "nightly"}

\* main.cjs 57-60
getUpdateChannel(state) == IF state.channel = "beta" THEN "beta" ELSE "stable"

\* main.cjs 51-55
shouldNotifyUpdate(state, now) == state.remindUntil = 0 \/ now > state.remindUntil

\* main.cjs 91
normalizeChannel(channel) == IF channel = "beta" THEN "beta" ELSE "stable"

InitUpdate ==
    /\ uState \in {[channel |-> c, remindUntil |-> 0] : c \in {"absent", "stable", "beta"}}
    /\ uNow = 0
    /\ uLastSet = "none"
    /\ uReply = <<>>
    /\ uCalls = 0
    /\ RunIdle /\ ChunkIdle /\ AssIdle /\ NormIdle /\ NameIdle

\* Time passes: a day.
UpdateTick ==
    /\ uCalls < MaxCalls
    /\ uNow' = uNow + RemindDelayMs
    /\ uCalls' = uCalls + 1
    /\ UNCHANGED <<uState, uLastSet, uReply>>
    /\ UNCHANGED <<runVars, chunkVars, assVars, normVars, nameVars>>

\* main.cjs 90-95: { ...state, channel: normalized } is written.
UpdateSetChannel ==
    /\ uCalls < MaxCalls
    /\ \E channel \in ChannelArgs :
         LET normalized == normalizeChannel(channel)
         IN  /\ uState' = [uState EXCEPT !.channel = normalized]
             /\ uLastSet' = normalized
             /\ uReply' = [status |-> "ok", channel |-> normalized]
    /\ uCalls' = uCalls + 1
    /\ UNCHANGED uNow
    /\ UNCHANGED <<runVars, chunkVars, assVars, normVars, nameVars>>

\* main.cjs 97-99
UpdateGetChannel ==
    /\ uCalls < MaxCalls
    /\ uReply' = [channel |-> getUpdateChannel(uState)]
    /\ uCalls' = uCalls + 1
    /\ UNCHANGED <<uState, uNow, uLastSet>>
    /\ UNCHANGED <<runVars, chunkVars, assVars, normVars, nameVars>>

\* main.cjs 105-131: the state file is read, never written; the reply is
\* "checking", or "disabled" (generic provider without a URL), or "error".
UpdateCheck ==
    /\ uCalls < MaxCalls
    /\ \E status \in {"checking", "disabled", "error"} :
         uReply' = [status |-> status,
                    snoozed |-> ~shouldNotifyUpdate(uState, uNow),
                    allowPrerelease |-> getUpdateChannel(uState) = "beta"]
    /\ uCalls' = uCalls + 1
    /\ UNCHANGED <<uState, uNow, uLastSet>>
    /\ UNCHANGED <<runVars, chunkVars, assVars, normVars, nameVars>>

\* main.cjs 137-140: the object written holds remindUntil alone.
UpdateRemindLater ==
    /\ uCalls < MaxCalls
    /\ uState' = [channel |-> "absent", remindUntil |-> uNow + RemindDelayMs]
    /\ uReply' = [status |-> "remind"]
    /\ uCalls' = uCalls + 1
    /\ UNCHANGED <<uNow, uLastSet>>
    /\ UNCHANGED <<runVars, chunkVars, assVars, normVars, nameVars>>

NextUpdate ==
    \/ UpdateTick
    \/ UpdateSetChannel
    \/ UpdateGetChannel
    \/ UpdateCheck
    \/ UpdateRemindLater

SpecUpdate == InitUpdate /\ [][NextUpdate]_vars

\* C30 as stated: after any sequence of update:setChannel,
\* update:remindLater and update:check calls, the channel update:getChannel
\* returns is the one given to the latest update:setChannel, normalized.
C30_AsStated ==
    uLastSet # "none" => getUpdateChannel(uState) = uLastSet

====
